---- MODULE Spec2Model ----
(***************************************************************************)
(* Room-booking lifecycle engine of the department portal                  *)
(* (src/features/rooms.py with src/utils/audit.py, io.py, notify.py and   *)
(* scheduler_utils.py, and the room finder src/features/finder.py).        *)
(*                                                                         *)
(* The persisted JSON documents are the variables rooms, audit, history    *)
(* and waitlist.  Every browser session executes the page script main():   *)
(* it loads rooms.json into its own in-memory copy, sweeps expired         *)
(* bookings, and then handles at most one user intent (book, cancel, join  *)
(* the waitlist, cancel a waitlist entry) before the run ends.  Script     *)
(* runs of different sessions interleave between these steps.              *)
(***************************************************************************)
EXTENDS Integers, Sequences, FiniteSets, TLC

VARIABLES
    rooms,      \* data/rooms.json: room -> day -> slot -> occupied
    audit,      \* data/audit_log.json: sequence of audit events
    history,    \* data/booking_history.json: sequence of history records
    waitlist,   \* data/waitlist.json: sequence of waitlist entries
    now,        \* wall clock, [date |-> day of month, hour |-> 0..23]
    ticks,      \* number of waitlist timestamps drawn so far (datetime.now())
    pc,         \* per session: position of its script run in main()
    data,       \* per session: the in-memory copy returned by _load_rooms()
    out,        \* what the last handler reported to its user
    left,       \* audit events and waitlist entries that may still be written
    call,       \* a function of the portal called on its own: arguments, result
    notify,     \* data/settings.json as read_json returns it, and the mail server
    frame,      \* per session: the locals of its append_json_array call in progress
    index,      \* data/media_index.json: albums, media, pending_approval
    page        \* per session: the index its media page run loaded

engine == <<rooms, audit, history, waitlist, now, ticks, pc, data, out, left, notify, frame, index, page>>

vars == <<rooms, audit, history, waitlist, now, ticks, pc, data, out, left, call, notify, frame, index, page>>

(***************************************************************************)
(* Bounds of the model.                                                    *)
(***************************************************************************)
MaxOps == 4         \* audit events plus waitlist entries written in one behaviour
FifoOps == 3        \* the same, in a behaviour that starts with two users waiting
NotifyOps == 2      \* the same, in a behaviour that starts with one user waiting
AuditOps == 3       \* calls of log_audit_event in a behaviour of the audit log alone
SaturdayOps == 3    \* audit events plus waitlist entries in a behaviour with Saturdays
MediaOps == 4       \* audit events written in a behaviour of the media centre

\* The teachers using the portal, one browser session each.
Users == {"a@dept.edu", "b@dept.edu"}

None == "None"

(***************************************************************************)
(* Calendar.  A date is a day of November 2025, a month whose 1st is a     *)
(* Saturday; weekday() numbers Monday 0 .. Sunday 6 as Python does.        *)
(***************************************************************************)
WEEK_ORDER ==
    <<"Monday", "Tuesday", "Wednesday", "Thursday", "Friday", "Saturday", "Sunday">>

weekday(d) == (d + 4) % 7

strftime_A(d) == WEEK_ORDER[weekday(d) + 1]

\* date.weekday() of the given day of a month whose 1st has weekday
\* first_day_weekday.
weekday_in(first_day_weekday, day) == (first_day_weekday + day - 1) % 7

\* The rule with the 2nd Saturday as the holiday.
working_saturday_second(first_day_weekday, day) ==
    IF weekday_in(first_day_weekday, day) # 5
    THEN TRUE
    ELSE LET days_until_saturday == (5 - first_day_weekday) % 7
             first_saturday == 1 + days_until_saturday
             saturday_number == ((day - first_saturday) \div 7) + 1
         IN  saturday_number # 2

\* is_working_saturday(check_date) for a date given by its day of the month
\* and the weekday of the month's 1st: False only for the 3rd Saturday.
working_saturday(first_day_weekday, day) ==
    IF weekday_in(first_day_weekday, day) # 5
    THEN TRUE
    ELSE LET days_until_saturday == (5 - first_day_weekday) % 7
             first_saturday == 1 + days_until_saturday
             saturday_number == ((day - first_saturday) \div 7) + 1
         IN  saturday_number # 3

\* is_working_saturday(check_date) for a day of November 2025.
is_working_saturday(d) == working_saturday(weekday(1), d)

\* _get_day_name(selected_date): the day key, or None on a holiday Saturday.
_get_day_name(d) ==
    LET day_name == strftime_A(d)
    IN  IF day_name = "Saturday" /\ ~is_working_saturday(d) THEN None ELSE day_name

(***************************************************************************)
(* Slot labels.  A label is a string used as a dictionary key; Chars gives *)
(* its characters so that the parser below works on the text itself.       *)
(***************************************************************************)
Chars(slot) ==
    CASE slot = "9AM-10AM" -> <<"9", "A", "M", "-", "1", "0", "A", "M">>
      [] slot = "12PM-1PM" -> <<"1", "2", "P", "M", "-", "1", "P", "M">>
      [] slot = "Break"    -> <<"B", "r", "e", "a", "k">>
      [] OTHER             -> <<>>

Digits == <<"0", "1", "2", "3", "4", "5", "6", "7", "8", "9">>

IsDigit(c) == \E i \in 1..10 : Digits[i] = c

DigitVal(c) == (CHOOSE i \in 1..10 : Digits[i] = c) - 1

\* str.split('-'): the pieces between the dashes.
RECURSIVE split_dash(_, _, _)
split_dash(s, i, cur) ==
    IF i > Len(s) THEN <<cur>>
    ELSE IF s[i] = "-" THEN <<cur>> \o split_dash(s, i + 1, <<>>)
    ELSE split_dash(s, i + 1, Append(cur, s[i]))

\* 'PM' in s
contains(s, a, b) == \E i \in 1..(Len(s) - 1) : s[i] = a /\ s[i + 1] = b

\* s.replace(ab, ''): left to right, non-overlapping.
RECURSIVE remove_pair(_, _, _, _)
remove_pair(s, i, a, b) ==
    IF i > Len(s) THEN <<>>
    ELSE IF i < Len(s) /\ s[i] = a /\ s[i + 1] = b THEN remove_pair(s, i + 2, a, b)
    ELSE <<s[i]>> \o remove_pair(s, i + 1, a, b)

strip_meridiem(s) == remove_pair(remove_pair(s, 1, "A", "M"), 1, "P", "M")

\* int(s) for a decimal numeral; anything else raises ValueError.
is_int(s) == Len(s) > 0 /\ \A i \in 1..Len(s) : IsDigit(s[i])

RECURSIVE to_int(_, _)
to_int(s, n) ==
    IF n = 0 THEN 0 ELSE 10 * to_int(s, n - 1) + DigitVal(s[n])

NoRange == [ok |-> FALSE, start_hour |-> 0, end_hour |-> 0]

\* _slot_to_time_range(slot_str, base_date): the start and end hour of the
\* slot on base_date, or (None, None) when any step raises.
_slot_to_time_range(chars) ==
    LET parts == split_dash(chars, 1, <<>>)
    IN  IF Len(parts) # 2 THEN NoRange
        ELSE
        LET is_pm == contains(parts[2], "P", "M")
            start_str == strip_meridiem(parts[1])
            end_str == strip_meridiem(parts[2])
        IN  IF ~(is_int(start_str) /\ is_int(end_str)) THEN NoRange
            ELSE
            LET s0 == to_int(start_str, Len(start_str))
                e0 == to_int(end_str, Len(end_str))
                s1 == IF is_pm /\ s0 # 12 THEN s0 + 12 ELSE s0
                \* if / elif / elif: only the first branch that applies runs
                end_pm == is_pm /\ e0 # 12
                start_midnight == ~end_pm /\ ~is_pm /\ s1 = 12
                end_midnight == ~end_pm /\ ~start_midnight /\ ~is_pm /\ e0 = 12
                e1 == IF end_pm THEN e0 + 12 ELSE e0
                s2 == IF start_midnight THEN 0 ELSE s1
                e2 == IF end_midnight THEN 0 ELSE e1
            IN  IF s2 > 23 \/ e2 > 23 THEN NoRange
                ELSE [ok |-> TRUE, start_hour |-> s2, end_hour |-> e2]

(***************************************************************************)
(* The timetable in data/rooms.json.  Only the booleans ever change.       *)
(***************************************************************************)
InitRooms ==
    [Room1 |-> [Monday  |-> ("9AM-10AM" :> FALSE)],
     Room2 |-> [Tuesday |-> ("Break" :> FALSE)]]

NoData == [r \in {} |-> FALSE]

NoOut == [user |-> None, op |-> None, res |-> None]

\* No append_json_array call is in progress.
NoFrame == [busy |-> FALSE, data |-> <<>>, item |-> <<>>]

\* The media index _load_media_index falls back to, and a session that has
\* no media page run in progress.
NoIndex == [albums |-> <<>>, media |-> <<>>, pending_approval |-> <<>>]

NoPage == [loaded |-> FALSE, index |-> NoIndex]

NoCall == [fn |-> None, args |-> <<>>, done |-> FALSE, res |-> <<>>]

(***************************************************************************)
(* Audit log and booking history.                                          *)
(***************************************************************************)
\* f"{room}|{day_name}|{slot}"
entity_id_of(room, day_name, slot) == room \o "|" \o day_name \o "|" \o slot

\* log_audit_event appending the event twice.
log_audit_event_twice(log, actor_email, action, entity_type, entity_id) ==
    log \o << [actor |-> actor_email, action |-> action,
               entity_type |-> entity_type, entity_id |-> entity_id],
              [actor |-> actor_email, action |-> action,
               entity_type |-> entity_type, entity_id |-> entity_id] >>

\* log_audit_event(actor, action, entity_type, entity_id): append one event.
\* The event's uuid, timestamp and details do not influence the engine and
\* are not represented.
log_audit_event(log, actor_email, action, entity_type, entity_id) ==
    Append(log, [actor |-> actor_email, action |-> action,
                 entity_type |-> entity_type, entity_id |-> entity_id])

\* update_booking_history without its write.
update_booking_history_unwritten(hist, user_email, room, day, slot, action) == hist

\* update_booking_history(user_email, room, day, slot, action)
update_booking_history(hist, user_email, room, day, slot, action) ==
    Append(hist, [user_email |-> user_email, room |-> room, day |-> day,
                  slot |-> slot, action |-> action])

(***************************************************************************)
(* Waitlist.                                                               *)
(***************************************************************************)
\* _add_to_waitlist(room, day_name, slot, user_email, user_role); ts is the
\* value of datetime.now(), which also forms the id.
_add_to_waitlist(wl, room, day_name, slot, user_email, ts) ==
    Append(wl, [id |-> ts, room |-> room, day |-> day_name, slot |-> slot,
                user_email |-> user_email, timestamp |-> ts,
                status |-> "waiting"])

\* indices of the entries waiting for this slot
waiting_users(wl, room, day_name, slot) ==
    {i \in 1..Len(wl) : /\ wl[i].room = room /\ wl[i].day = day_name
                         /\ wl[i].slot = slot /\ wl[i].status = "waiting"}

\* The sort reversed: the newest waiting entry comes first.
first_user_newest(wl, W) ==
    CHOOSE i \in W : \A j \in W :
        \/ wl[i].timestamp > wl[j].timestamp
        \/ wl[i].timestamp = wl[j].timestamp /\ i >= j

\* waiting_users.sort(key=timestamp)[0]: list.sort is stable, so among equal
\* timestamps the entry that is first in the file comes first.
first_user(wl, W) ==
    CHOOSE i \in W : \A j \in W :
        \/ wl[i].timestamp < wl[j].timestamp
        \/ wl[i].timestamp = wl[j].timestamp /\ i <= j

\* _process_waitlist marking every waiting entry of the slot.
_process_waitlist_all(wl, room, day_name, slot) ==
    LET W == waiting_users(wl, room, day_name, slot)
    IN  IF W = {} THEN [waitlist |-> wl, notified |-> None]
        ELSE [waitlist |->
                 [i \in 1..Len(wl) |->
                     IF i \in W THEN [wl[i] EXCEPT !.status = "notified"] ELSE wl[i]],
              notified |-> wl[first_user(wl, W)].user_email]

\* _process_waitlist(room, day_name, slot): mark the first waiting entry
\* notified and return its user, or None.
_process_waitlist(wl, room, day_name, slot) ==
    LET W == waiting_users(wl, room, day_name, slot)
    IN  IF W = {} THEN [waitlist |-> wl, notified |-> None]
        ELSE LET f == first_user(wl, W)
             IN  [waitlist |->
                      [i \in 1..Len(wl) |->
                          IF wl[i].id = wl[f].id
                          THEN [wl[i] EXCEPT !.status = "notified"]
                          ELSE wl[i]],
                  notified |-> wl[f].user_email]

\* cancel_waitlist_entry(waitlist_id): drop every entry with that id.
RECURSIVE cancel_waitlist_entry(_, _)
cancel_waitlist_entry(wl, waitlist_id) ==
    IF wl = <<>> THEN <<>>
    ELSE IF Head(wl).id = waitlist_id THEN cancel_waitlist_entry(Tail(wl), waitlist_id)
    ELSE <<Head(wl)>> \o cancel_waitlist_entry(Tail(wl), waitlist_id)

(***************************************************************************)
(* Booking engine.  The operators return the documents as the call leaves  *)
(* them; "saved" tells whether _save_rooms was called with "data".         *)
(***************************************************************************)
\* dict.get(key, default)
get(d, key, default) == IF key \in DOMAIN d THEN d[key] ELSE default

(***************************************************************************)
(* Notifications (src/utils/notify.py).  notify.settings is the kind of    *)
(* value read_json("data/settings.json") returns: the dict of the file, or *)
(* the list [] that read_json returns for a missing or unparsable file     *)
(* (the path has no "index" in it).  notify.enabled is the email switch of *)
(* the dict and notify.smtp tells whether the mail server takes the mail.  *)
(***************************************************************************)
\* The fallback of load_settings, and the settings of a portal whose
\* administrator never switched notifications on.
DefaultNotify == [settings |-> "dict", enabled |-> FALSE, smtp |-> TRUE]

NotifyStates ==
    {[settings |-> "dict", enabled |-> e, smtp |-> m] : e \in BOOLEAN, m \in BOOLEAN}
        \cup {[settings |-> "list", enabled |-> FALSE, smtp |-> TRUE]}

\* load_settings(): read_json raises nothing, so the except branch with the
\* default dict is never taken and the list is returned as it is.
load_settings(n) == n.settings

\* _send_email(subject, body, recipients): every failure is caught and printed.
_send_email(n) == IF n.smtp THEN "sent" ELSE "failed"

\* _send_notification(subject, message, recipients): settings.get(...) is
\* evaluated outside any try, and a list has no get: AttributeError.
_send_notification(n) ==
    IF load_settings(n) # "dict"
    THEN "raised"
    ELSE IF n.enabled THEN _send_email(n) ELSE "disabled"

send_booking_confirmation(n) == _send_notification(n)

send_booking_cancelled(n) == _send_notification(n)

free_slots(timeslots) == {t \in DOMAIN timeslots : ~timeslots[t]}

booked_slots(timeslots) == {t \in DOMAIN timeslots : timeslots[t]}

\* book_slot_logic without its call of _save_rooms.
book_slot_logic_unsaved(d, log, hist, room, day_name, slot_to_book, user, notify_me) ==
    IF ~get(d[room][day_name], slot_to_book, TRUE)
    THEN [res |-> "booked", saved |-> FALSE,
          data |-> [d EXCEPT ![room][day_name][slot_to_book] = TRUE],
          audit |-> log_audit_event(log, user, "BOOK", "ROOM_BOOKING",
                                    entity_id_of(room, day_name, slot_to_book)),
          history |-> update_booking_history(hist, user, room, day_name,
                                             slot_to_book, "BOOKED")]
    ELSE [res |-> "stale", saved |-> FALSE, data |-> d, audit |-> log,
          history |-> hist]

\* book_slot_logic with its slot test made on the file instead of the copy.
book_slot_logic_rereading(d, log, hist, room, day_name, slot_to_book, user, notify_me) ==
    IF ~get(rooms[room][day_name], slot_to_book, TRUE)
    THEN [res |-> "booked", saved |-> TRUE,
          data |-> [d EXCEPT ![room][day_name][slot_to_book] = TRUE],
          audit |-> log_audit_event(log, user, "BOOK", "ROOM_BOOKING",
                                    entity_id_of(room, day_name, slot_to_book)),
          history |-> update_booking_history(hist, user, room, day_name,
                                             slot_to_book, "BOOKED")]
    ELSE [res |-> "stale", saved |-> FALSE, data |-> d, audit |-> log,
          history |-> hist]

\* book_slot_logic(data, room, day_name, slot_to_book, user, ..., notify_me):
\* data is the copy the page run loaded; the slot test reads that copy, not
\* the file.  The confirmation is sent after the file, the audit event and
\* the history record are written and outside any try: when it raises, the
\* exception leaves book_slot_logic and the page shows it instead of the
\* booking confirmation.
book_slot_logic(d, log, hist, room, day_name, slot_to_book, user, notify_me) ==
    IF ~get(d[room][day_name], slot_to_book, TRUE)
    THEN LET booked == [d EXCEPT ![room][day_name][slot_to_book] = TRUE]
             entity_id == entity_id_of(room, day_name, slot_to_book)
             raised == notify_me /\ send_booking_confirmation(notify) = "raised"
         IN  [res |-> IF raised THEN "exception" ELSE "booked",
              saved |-> TRUE, data |-> booked,
              audit |-> log_audit_event(log, user, "BOOK", "ROOM_BOOKING", entity_id),
              history |-> update_booking_history(hist, user, room, day_name,
                                                 slot_to_book, "BOOKED")]
    ELSE [res |-> "stale", saved |-> FALSE, data |-> d, audit |-> log,
          history |-> hist]

\* _cancel_booking without its call of _save_rooms.
_cancel_booking_unsaved(disk, log, hist, wl, room, day_name, slot, user_email) ==
    IF room \in DOMAIN disk /\ day_name \in DOMAIN disk[room]
       /\ slot \in DOMAIN disk[room][day_name]
    THEN IF disk[room][day_name][slot]
         THEN LET p == _process_waitlist(wl, room, day_name, slot)
              IN  [res |-> "cancelled", saved |-> FALSE, data |-> disk,
                   audit |-> log_audit_event(log, user_email, "CANCEL", "ROOM_BOOKING",
                                 entity_id_of(room, day_name, slot)),
                   history |-> update_booking_history(hist, user_email, room,
                                                      day_name, slot, "CANCELLED"),
                   waitlist |-> p.waitlist, notified |-> p.notified]
         ELSE [res |-> "not_booked", saved |-> FALSE, data |-> disk, audit |-> log,
               history |-> hist, waitlist |-> wl, notified |-> None]
    ELSE [res |-> "invalid", saved |-> FALSE, data |-> disk, audit |-> log,
          history |-> hist, waitlist |-> wl, notified |-> None]

\* _cancel_booking without its call of _process_waitlist.
_cancel_booking_no_promotion(disk, log, hist, wl, room, day_name, slot, user_email) ==
    IF room \in DOMAIN disk /\ day_name \in DOMAIN disk[room]
       /\ slot \in DOMAIN disk[room][day_name]
    THEN IF disk[room][day_name][slot]
         THEN [res |-> "cancelled", saved |-> TRUE,
               data |-> [disk EXCEPT ![room][day_name][slot] = FALSE],
               audit |-> log_audit_event(log, user_email, "CANCEL", "ROOM_BOOKING",
                             entity_id_of(room, day_name, slot)),
               history |-> update_booking_history(hist, user_email, room,
                                                  day_name, slot, "CANCELLED"),
               waitlist |-> wl, notified |-> None]
         ELSE [res |-> "not_booked", saved |-> FALSE, data |-> disk, audit |-> log,
               history |-> hist, waitlist |-> wl, notified |-> None]
    ELSE [res |-> "invalid", saved |-> FALSE, data |-> disk, audit |-> log,
          history |-> hist, waitlist |-> wl, notified |-> None]

\* _cancel_booking without the test that the slot is booked.
_cancel_booking_unchecked(disk, log, hist, wl, room, day_name, slot, user_email) ==
    IF room \in DOMAIN disk /\ day_name \in DOMAIN disk[room]
       /\ slot \in DOMAIN disk[room][day_name]
    THEN LET p == _process_waitlist(wl, room, day_name, slot)
         IN  [res |-> "cancelled", saved |-> TRUE,
              data |-> [disk EXCEPT ![room][day_name][slot] = FALSE],
              audit |-> log_audit_event(log, user_email, "CANCEL", "ROOM_BOOKING",
                            entity_id_of(room, day_name, slot)),
              history |-> update_booking_history(hist, user_email, room,
                                                 day_name, slot, "CANCELLED"),
              waitlist |-> p.waitlist, notified |-> p.notified]
    ELSE [res |-> "invalid", saved |-> FALSE, data |-> disk, audit |-> log,
          history |-> hist, waitlist |-> wl, notified |-> None]

\* _cancel_booking(room, day_name, slot, user_email, reason): works on a
\* fresh _load_rooms() of the file, here "disk".  send_booking_cancelled is
\* called after the three writes and before _process_waitlist, inside the
\* try: when it raises, the except branch returns (False, "Error cancelling
\* booking: ...") and the waitlist is not processed.
_cancel_booking(disk, log, hist, wl, room, day_name, slot, user_email) ==
    IF room \in DOMAIN disk /\ day_name \in DOMAIN disk[room]
       /\ slot \in DOMAIN disk[room][day_name]
    THEN IF disk[room][day_name][slot]
         THEN LET freed == [disk EXCEPT ![room][day_name][slot] = FALSE]
                  entity_id == entity_id_of(room, day_name, slot)
                  raised == send_booking_cancelled(notify) = "raised"
                  p == IF raised
                       THEN [waitlist |-> wl, notified |-> None]
                       ELSE _process_waitlist(wl, room, day_name, slot)
              IN  [res |-> IF raised THEN "error" ELSE "cancelled",
                   saved |-> TRUE, data |-> freed,
                   audit |-> log_audit_event(log, user_email, "CANCEL",
                                             "ROOM_BOOKING", entity_id),
                   history |-> update_booking_history(hist, user_email, room,
                                                      day_name, slot, "CANCELLED"),
                   waitlist |-> p.waitlist, notified |-> p.notified]
         ELSE [res |-> "not_booked", saved |-> FALSE, data |-> disk, audit |-> log,
               history |-> hist, waitlist |-> wl, notified |-> None]
    ELSE [res |-> "invalid", saved |-> FALSE, data |-> disk, audit |-> log,
          history |-> hist, waitlist |-> wl, notified |-> None]

\* The (room, slot) pairs in the order the loops of _reset_expired_bookings
\* meet them: the key order of rooms.json, which json keeps.
FileOrder ==
    << <<"Room1", "9AM-10AM">>, <<"Room2", "Break">> >>

\* The expiry test with > in place of >=.
is_expired_strict(is_booked, slot, current_datetime) ==
    LET r == _slot_to_time_range(Chars(slot))
    IN  is_booked /\ r.ok /\ current_datetime.hour > r.end_hour

\* The expiry test taking a label that does not parse for expired.
is_expired_unparsed(is_booked, slot, current_datetime) ==
    LET r == _slot_to_time_range(Chars(slot))
    IN  is_booked /\ (~r.ok \/ current_datetime.hour >= r.end_hour)

\* The test of _reset_expired_bookings on one slot of the current day.
is_expired(is_booked, slot, current_datetime) ==
    LET r == _slot_to_time_range(Chars(slot))
    IN  is_booked /\ r.ok /\ current_datetime.hour >= r.end_hour

\* _reset_expired_bookings(rooms_data, current_datetime), from the k-th pair
\* of FileOrder on; acc carries rooms_data, the two files and "updated".
RECURSIVE reset_from(_, _, _)
reset_from(k, acc, current_datetime) ==
    IF k > Len(FileOrder) THEN acc
    ELSE
    LET room_name == FileOrder[k][1]
        slot == FileOrder[k][2]
        current_day == strftime_A(current_datetime.date)
        schedule == acc.data[room_name]
    IN  IF current_day \notin DOMAIN schedule
           \/ slot \notin DOMAIN schedule[current_day]
        THEN reset_from(k + 1, acc, current_datetime)
        ELSE IF is_expired(schedule[current_day][slot], slot, current_datetime)
        THEN LET p == _process_waitlist(acc.waitlist, room_name, current_day, slot)
             IN  reset_from(k + 1,
                     [data |-> [acc.data EXCEPT ![room_name][current_day][slot] = FALSE],
                      updated |-> TRUE,
                      audit |-> log_audit_event(acc.audit, "SYSTEM", "AUTO_EXPIRE",
                                    "ROOM_BOOKING",
                                    entity_id_of(room_name, current_day, slot)),
                      waitlist |-> p.waitlist],
                     current_datetime)
        ELSE reset_from(k + 1, acc, current_datetime)

\* The sweep without "day_slots[slot] = False".
RECURSIVE reset_from_uncleared(_, _, _)
reset_from_uncleared(k, acc, current_datetime) ==
    IF k > Len(FileOrder) THEN acc
    ELSE
    LET room_name == FileOrder[k][1]
        slot == FileOrder[k][2]
        current_day == strftime_A(current_datetime.date)
        schedule == acc.data[room_name]
    IN  IF current_day \notin DOMAIN schedule
           \/ slot \notin DOMAIN schedule[current_day]
        THEN reset_from_uncleared(k + 1, acc, current_datetime)
        ELSE IF is_expired(schedule[current_day][slot], slot, current_datetime)
        THEN LET p == _process_waitlist(acc.waitlist, room_name, current_day, slot)
             IN  reset_from_uncleared(k + 1,
                     [data |-> acc.data, updated |-> TRUE,
                      audit |-> log_audit_event(acc.audit, "SYSTEM", "AUTO_EXPIRE",
                                    "ROOM_BOOKING",
                                    entity_id_of(room_name, current_day, slot)),
                      waitlist |-> p.waitlist],
                     current_datetime)
        ELSE reset_from_uncleared(k + 1, acc, current_datetime)

_reset_expired_bookings_uncleared(rooms_data, log, wl, current_datetime) ==
    reset_from_uncleared(1, [data |-> rooms_data, updated |-> FALSE, audit |-> log,
                             waitlist |-> wl], current_datetime)

_reset_expired_bookings(rooms_data, log, wl, current_datetime) ==
    reset_from(1, [data |-> rooms_data, updated |-> FALSE, audit |-> log,
                   waitlist |-> wl], current_datetime)

\* The user's BOOKED history records for this room and day whose slot is
\* occupied in the loaded copy: the options of the cancellation form.
current_bookings(hist, d, user, room, day_name) ==
    {hist[i].slot : i \in {j \in 1..Len(hist) :
        /\ hist[j].user_email = user /\ hist[j].action = "BOOKED"
        /\ hist[j].room = room /\ hist[j].day = day_name
        /\ get(d[room][day_name], hist[j].slot, FALSE)}}

(***************************************************************************)
(* The clock.  Time steps through ClockInstants: Monday 3 November 9:00    *)
(* and 10:00, Tuesday 4 November 9:00.                                     *)
(***************************************************************************)
ClockInstants ==
    << [date |-> 3, hour |-> 9], [date |-> 3, hour |-> 10], [date |-> 4, hour |-> 9] >>

\* The dates the date picker is used for: today + k (the picker allows
\* today .. today + 60; "Next Week" selects the same weekday, 7 days on).
PickOffsets == {0, 1, 6, 7}

Rooms == DOMAIN InitRooms

Slots == {FileOrder[k][2] : k \in 1..Len(FileOrder)}

index_of(seq, x) == CHOOSE k \in 1..Len(seq) : seq[k] = x

\* The writes left once the audit log has grown to log.
spend(log) == left - (Len(log) - Len(audit))

Init ==
    /\ rooms = InitRooms
    /\ audit = <<>>
    /\ history = <<>>
    /\ waitlist = <<>>
    /\ now = ClockInstants[1]
    /\ ticks = 0
    /\ pc = [s \in Users |-> "idle"]
    /\ data = [s \in Users |-> NoData]
    /\ out = NoOut
    /\ left = MaxOps
    /\ call = NoCall
    /\ notify = DefaultNotify
    /\ frame = [s \in Users |-> NoFrame]
    /\ index = NoIndex
    /\ page = [s \in Users |-> NoPage]

\* Time passes.
Tick ==
    /\ index_of(ClockInstants, now) < Len(ClockInstants)
    /\ now' = ClockInstants[index_of(ClockInstants, now) + 1]
    /\ UNCHANGED <<rooms, audit, history, waitlist, ticks, pc, data, out, left, call, notify, frame, index, page>>

\* main(), line 308: a page run starts and loads rooms.json.
Load(s) ==
    /\ pc[s] = "idle"
    /\ data' = [data EXCEPT ![s] = rooms]
    /\ pc' = [pc EXCEPT ![s] = "loaded"]
    /\ UNCHANGED <<rooms, audit, history, waitlist, now, ticks, out, left, call, notify, frame, index, page>>

\* main(), lines 313-318: sweep the loaded copy and save it if it changed.
AutoExpire(s) ==
    /\ pc[s] = "loaded"
    /\ LET r == _reset_expired_bookings(data[s], audit, waitlist, now)
       IN  /\ spend(r.audit) >= 0
           /\ left' = spend(r.audit)
           /\ data' = [data EXCEPT ![s] = r.data]
           /\ rooms' = IF r.updated THEN r.data ELSE rooms
           /\ audit' = r.audit
           /\ waitlist' = r.waitlist
    /\ pc' = [pc EXCEPT ![s] = "ready"]
    /\ UNCHANGED <<history, now, ticks, out, call, notify, frame, index, page>>

\* The run is over: the session waits for the next interaction.
finish(s) ==
    /\ pc' = [pc EXCEPT ![s] = "idle"]
    /\ data' = [data EXCEPT ![s] = NoData]

\* The room and date widgets of a run that got past the two early returns.
shown(s, room, sel) ==
    /\ pc[s] = "ready"
    /\ room \in DOMAIN data[s]
    /\ sel \in {now.date + k : k \in PickOffsets}
    /\ _get_day_name(sel) # None
    /\ _get_day_name(sel) \in DOMAIN data[s][room]

(***************************************************************************)
(* Faculty timetable (data/faculty.json) and the conflict check.           *)
(***************************************************************************)
\* The file: one faculty member, committed on Tuesday at the "Break" slot.
faculty_data ==
    << [faculty_name |-> <<"D", "r", ".", " ", "B", " ", "R", "a", "o">>,
        schedule |-> ("Tuesday" :> ("Break" :> TRUE))] >>

\* user_email.split('@')[0].replace('.', ' ').title()
title_name(user_email) ==
    CASE user_email = "a@dept.edu" -> <<"A">>
      [] user_email = "b@dept.edu" -> <<"B">>
      [] OTHER -> <<>>

\* sub in s, for strings given by their characters
is_substring(sub, s) ==
    \E i \in 0..(Len(s) - Len(sub)) : \A k \in 1..Len(sub) : s[i + k] = sub[k]

\* _check_booking_conflicts(room, day_name, slot, user_email): the warnings,
\* for the first faculty member whose name contains the user's.
_check_booking_conflicts(room, day_name, slot, user_email) ==
    LET matches == {i \in 1..Len(faculty_data) :
                       is_substring(title_name(user_email), faculty_data[i].faculty_name)}
    IN  IF matches = {} THEN <<>>
        ELSE LET user_faculty == faculty_data[CHOOSE i \in matches :
                                                  \A j \in matches : i <= j].schedule
             IN  IF day_name \in DOMAIN user_faculty
                    /\ get(user_faculty[day_name], slot, FALSE)
                 THEN <<"conflicting commitment">>
                 ELSE <<>>

\* main(), lines 462-513: the booking form is submitted for a free slot.
\* With conflicts the warnings are shown and st.button("Book Anyway") is
\* called inside the form, which Streamlit refuses: the run ends there and
\* book_slot_logic is not called.
Book(s, room, sel, slot) ==
    /\ shown(s, room, sel)
    /\ LET day_name == _get_day_name(sel)
           conflicts == _check_booking_conflicts(room, day_name, slot, s)
       IN  /\ slot \in free_slots(data[s][room][day_name])
           /\ IF conflicts # <<>>
              THEN /\ out' = [user |-> s, op |-> "book", res |-> "conflict"]
                   /\ UNCHANGED <<rooms, audit, history, left>>
              ELSE \E notify_me \in BOOLEAN :
                   LET r == book_slot_logic(data[s], audit, history, room, day_name,
                                            slot, s, notify_me)
                   IN  /\ spend(r.audit) >= 0
                       /\ left' = spend(r.audit)
                       /\ rooms' = IF r.saved THEN r.data ELSE rooms
                       /\ audit' = r.audit
                       /\ history' = r.history
                       /\ out' = [user |-> s, op |-> "book", res |-> r.res]
    /\ finish(s)
    /\ UNCHANGED <<waitlist, now, ticks, call, notify, frame, index, page>>

\* main(), lines 533-577: the cancellation form is submitted.
Cancel(s, room, sel, slot) ==
    /\ shown(s, room, sel)
    /\ LET day_name == _get_day_name(sel)
       IN  /\ slot \in current_bookings(history, data[s], s, room, day_name)
           /\ LET r == _cancel_booking(rooms, audit, history, waitlist, room,
                                       day_name, slot, s)
              IN  /\ spend(r.audit) >= 0
                  /\ left' = spend(r.audit)
                  /\ rooms' = IF r.saved THEN r.data ELSE rooms
                  /\ audit' = r.audit
                  /\ history' = r.history
                  /\ waitlist' = r.waitlist
                  /\ out' = [user |-> s, op |-> "cancel", res |-> r.res]
    /\ finish(s)
    /\ UNCHANGED <<now, ticks, call, notify, frame, index, page>>

\* main(), lines 514-531: no slot is free and the user joins the waitlist.
JoinWaitlist(s, room, sel, slot) ==
    /\ shown(s, room, sel)
    /\ left > 0
    /\ left' = left - 1
    /\ LET day_name == _get_day_name(sel)
       IN  /\ free_slots(data[s][room][day_name]) = {}
           /\ slot \in booked_slots(data[s][room][day_name])
           /\ waitlist' = _add_to_waitlist(waitlist, room, day_name, slot, s, ticks + 1)
    /\ out' = [user |-> s, op |-> "join", res |-> "waiting"]
    /\ ticks' = ticks + 1
    /\ finish(s)
    /\ UNCHANGED <<rooms, audit, history, now, call, notify, frame, index, page>>

\* show_waitlist_status, lines 270-286: the user cancels a waiting entry.
CancelWaitlist(s, i) ==
    /\ pc[s] = "ready"
    /\ i \in 1..Len(waitlist)
    /\ waitlist[i].user_email = s
    /\ waitlist[i].status = "waiting"
    /\ waitlist' = cancel_waitlist_entry(waitlist, waitlist[i].id)
    /\ out' = [user |-> s, op |-> "leave", res |-> "left"]
    /\ finish(s)
    /\ UNCHANGED <<rooms, audit, history, now, ticks, left, call, notify, frame, index, page>>

\* The run ends without a handler: the page is only viewed, or main()
\* returned early (holiday, no timetable for the day).
View(s) ==
    /\ pc[s] = "ready"
    /\ finish(s)
    /\ UNCHANGED <<rooms, audit, history, waitlist, now, ticks, out, left, call, notify, frame, index, page>>

Next ==
    \/ Tick
    \/ \E s \in Users : Load(s)
    \/ \E s \in Users : AutoExpire(s)
    \/ \E s \in Users, room \in Rooms, k \in PickOffsets, slot \in Slots :
           Book(s, room, now.date + k, slot)
    \/ \E s \in Users, room \in Rooms, k \in PickOffsets, slot \in Slots :
           Cancel(s, room, now.date + k, slot)
    \/ \E s \in Users, room \in Rooms, k \in PickOffsets, slot \in Slots :
           JoinWaitlist(s, room, now.date + k, slot)
    \/ \E s \in Users, i \in DOMAIN waitlist : CancelWaitlist(s, i)
    \/ \E s \in Users : View(s)

Spec == Init /\ [][Next]_vars

\* The states in which a user has booked Room1's Monday slot and then the
\* two users have joined its waitlist, one after the other, all in finished
\* page runs.
InitFifo ==
    \E booker \in Users :
        LET first == "a@dept.edu"
            second == "b@dept.edu"
            room == "Room1"
            day_name == "Monday"
            slot == "9AM-10AM"
            b == book_slot_logic(InitRooms, <<>>, <<>>, room, day_name, slot, booker, FALSE)
        IN  /\ rooms = b.data
            /\ audit = b.audit
            /\ history = b.history
            /\ waitlist = _add_to_waitlist(
                              _add_to_waitlist(<<>>, room, day_name, slot, first, 1),
                              room, day_name, slot, second, 2)
            /\ now = ClockInstants[1]
            /\ ticks = 2
            /\ pc = [s \in Users |-> "idle"]
            /\ data = [s \in Users |-> NoData]
            /\ out = [user |-> second, op |-> "join", res |-> "waiting"]
            /\ left = FifoOps
            /\ call = NoCall
            /\ notify = DefaultNotify
            /\ frame = [s \in Users |-> NoFrame]
            /\ index = NoIndex
            /\ page = [s \in Users |-> NoPage]

SpecFifo == InitFifo /\ [][Next]_vars

\* The states in which a@dept.edu has booked Room1's Monday slot without
\* asking for a confirmation and b@dept.edu has joined its waitlist, in
\* finished page runs, for every state of the notification settings and of
\* the mail server.
InitNotify ==
    LET room == "Room1"
        day_name == "Monday"
        slot == "9AM-10AM"
        b == book_slot_logic(InitRooms, <<>>, <<>>, room, day_name, slot,
                             "a@dept.edu", FALSE)
    IN  /\ rooms = b.data
        /\ audit = b.audit
        /\ history = b.history
        /\ waitlist = _add_to_waitlist(<<>>, room, day_name, slot, "b@dept.edu", 1)
        /\ now = ClockInstants[1]
        /\ ticks = 1
        /\ pc = [s \in Users |-> "idle"]
        /\ data = [s \in Users |-> NoData]
        /\ out = [user |-> "b@dept.edu", op |-> "join", res |-> "waiting"]
        /\ left = NotifyOps
        /\ call = NoCall
        /\ notify \in NotifyStates
        /\ frame = [s \in Users |-> NoFrame]
        /\ index = NoIndex
        /\ page = [s \in Users |-> NoPage]

SpecNotify == InitNotify /\ [][Next]_vars

(***************************************************************************)
(* Functions called on their own.  "call" holds one call: the function,    *)
(* its arguments and, once it has returned, its result.                    *)
(***************************************************************************)
pending(fn, args) == [fn |-> fn, args |-> args, done |-> FALSE, res |-> <<>>]

returned(c, res) == [c EXCEPT !.done = TRUE, !.res = res]

\* str(h) for an hour
numeral(h) ==
    IF h < 10 THEN <<Digits[h + 1]>> ELSE <<Digits[(h \div 10) + 1], Digits[(h % 10) + 1]>>

\* The label f"{h1}{m1}M-{h2}{m2}M", m1 and m2 being "A" or "P".
label_chars(h1, m1, h2, m2) ==
    numeral(h1) \o <<m1, "M", "-">> \o numeral(h2) \o <<m2, "M">>

Hours == 1..12

Meridiems == {"A", "P"}

\* The slot labels given to _slot_to_time_range: every label of the form
\* <start><AM|PM>-<end><AM|PM>, and the label without a time range.
SlotLabels ==
    {label_chars(h1, m1, h2, m2) : h1 \in Hours, m1 \in Meridiems,
                                   h2 \in Hours, m2 \in Meridiems}
    \cup {Chars("Break")}

\* _slot_to_time_range(slot_str, base_date) is called and returns.
ParseSlot ==
    /\ call.fn = "_slot_to_time_range" /\ ~call.done
    /\ call' = returned(call, _slot_to_time_range(call.args))
    /\ UNCHANGED engine

\* The dates given to is_working_saturday: every day of a month, for every
\* weekday the month's 1st can have.
Weekdays == 0..6

DaysOfMonth == 1..31

\* is_working_saturday(check_date) is called and returns.
CheckSaturday ==
    /\ call.fn = "is_working_saturday" /\ ~call.done
    /\ call' = returned(call, working_saturday(call.args.first_day_weekday,
                                                call.args.day))
    /\ UNCHANGED engine

(***************************************************************************)
(* The free-room finder (src/features/finder.py).  It reads rooms.json; a  *)
(* search is logged in the audit log.                                      *)
(***************************************************************************)
\* The loop that goes on after an unavailable slot and so keeps every room
\* with a free requested slot.
RECURSIVE scan_slots_any(_, _, _, _)
scan_slots_any(room_slots, time_slots, i, available_slots) ==
    IF i > Len(time_slots)
    THEN [all_free |-> TRUE, available_slots |-> available_slots]
    ELSE LET slot == time_slots[i]
         IN  IF slot \in DOMAIN room_slots /\ ~room_slots[slot]
             THEN scan_slots_any(room_slots, time_slots, i + 1,
                                 Append(available_slots, slot))
             ELSE scan_slots_any(room_slots, time_slots, i + 1, available_slots)

\* find_free_rooms's loop over time_slots from the i-th slot on: stops at the
\* first slot that is missing or occupied.
RECURSIVE scan_slots(_, _, _, _)
scan_slots(room_slots, time_slots, i, available_slots) ==
    IF i > Len(time_slots)
    THEN [all_free |-> TRUE, available_slots |-> available_slots]
    ELSE LET slot == time_slots[i]
         IN  IF slot \in DOMAIN room_slots /\ ~room_slots[slot]
             THEN scan_slots(room_slots, time_slots, i + 1, Append(available_slots, slot))
             ELSE [all_free |-> FALSE, available_slots |-> available_slots]

\* rooms_data.items(): the rooms in the order of the file.
items(rooms_data) ==
    IF DOMAIN rooms_data = {"A", "B"} THEN <<"A", "B">>
    ELSE [k \in 1..Len(FileOrder) |-> FileOrder[k][1]]

\* find_free_rooms(rooms_data, search_date, time_slots) from the k-th room
\* on; day_name is _get_day_name(search_date) of finder.py, plain strftime.
RECURSIVE find_free_rooms_from(_, _, _, _)
find_free_rooms_from(rooms_data, k, day_name, time_slots) ==
    IF k > Len(items(rooms_data)) THEN <<>>
    ELSE
    LET room_name == items(rooms_data)[k]
        schedule == rooms_data[room_name]
        rest == find_free_rooms_from(rooms_data, k + 1, day_name, time_slots)
    IN  IF day_name \notin DOMAIN schedule THEN rest
        ELSE LET r == scan_slots(schedule[day_name], time_slots, 1, <<>>)
             IN  IF r.all_free /\ r.available_slots # <<>>
                 THEN <<[room |-> room_name, available_slots |-> r.available_slots]>>
                      \o rest
                 ELSE rest

find_free_rooms(rooms_data, search_date, time_slots) ==
    find_free_rooms_from(rooms_data, 1, strftime_A(search_date), time_slots)

\* The list of the requested slots that exist, free or not.
RECURSIVE free_of_present(_, _)
free_of_present(room_slots, selected_slots) ==
    IF selected_slots = <<>> THEN <<>>
    ELSE LET slot == Head(selected_slots)
             rest == free_of_present(room_slots, Tail(selected_slots))
         IN  IF slot \in DOMAIN room_slots THEN <<slot>> \o rest ELSE rest

\* [slot for slot in selected_slots if slot in room_slots and not room_slots[slot]]
RECURSIVE free_of(_, _)
free_of(room_slots, selected_slots) ==
    IF selected_slots = <<>> THEN <<>>
    ELSE LET slot == Head(selected_slots)
             rest == free_of(room_slots, Tail(selected_slots))
         IN  IF slot \in DOMAIN room_slots /\ ~room_slots[slot]
             THEN <<slot>> \o rest ELSE rest

\* 0 < len(available_slots) < len(selected_slots)
is_partial(available_slots, selected_slots) ==
    0 < Len(available_slots) /\ Len(available_slots) < Len(selected_slots)

\* main(), lines 159-179: the rooms with some but not all requested slots
\* free, from the k-th room on.
RECURSIVE partial_rooms_from(_, _, _, _)
partial_rooms_from(rooms_data, k, day_name, selected_slots) ==
    IF k > Len(items(rooms_data)) THEN <<>>
    ELSE
    LET room_name == items(rooms_data)[k]
        schedule == rooms_data[room_name]
        rest == partial_rooms_from(rooms_data, k + 1, day_name, selected_slots)
    IN  IF day_name \notin DOMAIN schedule THEN rest
        ELSE LET available_slots == free_of(schedule[day_name], selected_slots)
             IN  IF is_partial(available_slots, selected_slots)
                 THEN <<[room |-> room_name, available |-> available_slots]>> \o rest
                 ELSE rest

\* ','.join(selected_slots)
RECURSIVE join(_)
join(strs) ==
    IF Len(strs) = 1 THEN strs[1] ELSE strs[1] \o "," \o join(Tail(strs))

\* str(search_date) for a day of November 2025
date_str(d) ==
    "2025-11-" \o Digits[(d \div 10) + 1] \o Digits[(d % 10) + 1]

\* The timetables the finder is run on: rooms A and B, each with a Monday
\* schedule over some of FinderSlots or with a Tuesday schedule only.
FinderSlots == {"9AM-10AM", "10AM-11AM"}

FinderSchedules ==
    {("Monday" :> day_slots) :
        day_slots \in UNION {[S -> BOOLEAN] : S \in SUBSET FinderSlots}}
    \cup {("Tuesday" :> ("9AM-10AM" :> FALSE))}

FinderData == {("A" :> a) @@ ("B" :> b) : a \in FinderSchedules, b \in FinderSchedules}

FinderDates == {3, 4}

\* What st.multiselect can return: the non-empty selections from all_slots,
\* in any order.
selections(all_slots) ==
    {<<t>> : t \in all_slots}
    \cup {p \in all_slots \X all_slots : p[1] # p[2]}

\* finder.main(), lines 104-179: "Search Free Rooms" is clicked with a date
\* the first room has a schedule for and a non-empty selection of its slots.
Search ==
    /\ call.fn = "finder.main" /\ ~call.done
    /\ LET rooms_data == rooms
           search_date == call.args.search_date
           selected_slots == call.args.selected_slots
           day_name == strftime_A(search_date)
           free_rooms == find_free_rooms(rooms_data, search_date, selected_slots)
       IN  /\ audit' = log_audit_event(audit, call.args.user, "SEARCH", "FREE_ROOMS",
                            date_str(search_date) \o "|" \o join(selected_slots))
           /\ call' = returned(call,
                  [free_rooms |-> free_rooms,
                   partial_shown |-> free_rooms = <<>>,
                   partial_rooms |->
                       IF free_rooms = <<>>
                       THEN partial_rooms_from(rooms_data, 1, day_name, selected_slots)
                       ELSE <<>>])
    /\ UNCHANGED <<rooms, history, waitlist, now, ticks, pc, data, out, left, notify, frame, index, page>>

\* The searches that finder.main() lets a user start on rooms_data.
searches(rooms_data) ==
    LET sample_room == items(rooms_data)[1]
        dates == {d \in FinderDates : strftime_A(d) \in DOMAIN rooms_data[sample_room]}
    IN  UNION {{pending("finder.main",
                        [user |-> u, search_date |-> d, selected_slots |-> sel]) :
                   u \in Users,
                   sel \in selections(DOMAIN rooms_data[sample_room][strftime_A(d)])} :
               d \in dates}

PendingCalls ==
    {pending("_slot_to_time_range", l) : l \in SlotLabels}
    \cup {pending("is_working_saturday", [first_day_weekday |-> w, day |-> d]) :
              w \in Weekdays, d \in DaysOfMonth}

InitCalls ==
    /\ audit = <<>>
    /\ history = <<>>
    /\ waitlist = <<>>
    /\ now = ClockInstants[1]
    /\ ticks = 0
    /\ pc = [s \in Users |-> "idle"]
    /\ data = [s \in Users |-> NoData]
    /\ out = NoOut
    /\ left = MaxOps
    /\ notify = DefaultNotify
    /\ frame = [s \in Users |-> NoFrame]
    /\ index = NoIndex
    /\ page = [s \in Users |-> NoPage]
    /\ \/ rooms = InitRooms /\ call \in PendingCalls
       \/ rooms \in FinderData /\ call \in searches(rooms)

NextCalls ==
    \/ ParseSlot
    \/ CheckSaturday
    \/ Search

SpecCalls == InitCalls /\ [][NextCalls]_vars

(***************************************************************************)
(* The finder on timetables with a Saturday schedule, for Saturday 8       *)
(* November 2025 (the 2nd Saturday, a working day) and Saturday 15         *)
(* November (the 3rd, the holiday).                                        *)
(***************************************************************************)
HolidaySchedules ==
    {("Saturday" :> day_slots) :
        day_slots \in UNION {[S -> BOOLEAN] : S \in SUBSET FinderSlots}}
    \cup {("Tuesday" :> ("9AM-10AM" :> FALSE))}

HolidayData == {("A" :> a) @@ ("B" :> b) : a \in HolidaySchedules, b \in HolidaySchedules}

HolidayDates == {8, 15}

\* The searches that finder.main() lets a user start on rooms_data for one
\* of the given dates.
searches_on(rooms_data, dates) ==
    LET sample_room == items(rooms_data)[1]
        with_slots == {d \in dates : strftime_A(d) \in DOMAIN rooms_data[sample_room]}
    IN  UNION {{pending("finder.main",
                        [user |-> u, search_date |-> d, selected_slots |-> sel]) :
                   u \in Users,
                   sel \in selections(DOMAIN rooms_data[sample_room][strftime_A(d)])} :
               d \in with_slots}

InitFinder ==
    /\ audit = <<>>
    /\ history = <<>>
    /\ waitlist = <<>>
    /\ now = ClockInstants[1]
    /\ ticks = 0
    /\ pc = [s \in Users |-> "idle"]
    /\ data = [s \in Users |-> NoData]
    /\ out = NoOut
    /\ left = MaxOps
    /\ notify = DefaultNotify
    /\ frame = [s \in Users |-> NoFrame]
    /\ index = NoIndex
    /\ page = [s \in Users |-> NoPage]
    /\ rooms \in HolidayData
    /\ call \in searches_on(rooms, HolidayDates)

SpecFinder == InitFinder /\ [][Search]_vars

(***************************************************************************)
(* Behaviours in which every form is submitted for the date one week after *)
(* today (the "Next Week" button): each booking is for 10 or 11 November,  *)
(* and the clock ends on Tuesday 4 November.                               *)
(***************************************************************************)
NextWeek == 7

NextNextWeek ==
    \/ Tick
    \/ \E s \in Users : Load(s)
    \/ \E s \in Users : AutoExpire(s)
    \/ \E s \in Users, room \in Rooms, slot \in Slots :
           Book(s, room, now.date + NextWeek, slot)
    \/ \E s \in Users, room \in Rooms, slot \in Slots :
           Cancel(s, room, now.date + NextWeek, slot)
    \/ \E s \in Users, room \in Rooms, slot \in Slots :
           JoinWaitlist(s, room, now.date + NextWeek, slot)
    \/ \E s \in Users, i \in DOMAIN waitlist : CancelWaitlist(s, i)
    \/ \E s \in Users : View(s)

SpecNextWeek == Init /\ [][NextNextWeek]_vars

(***************************************************************************)
(* A timetable with a Saturday schedule, from Saturday 8 November 2025 (the *)
(* 2nd Saturday, a working day) at 9:00 to Saturday 15 November (the 3rd,   *)
(* the holiday) at 9:00 and at 10:00.                                       *)
(***************************************************************************)
SaturdayRooms ==
    [Room1 |-> [Saturday |-> ("9AM-10AM" :> FALSE)],
     Room2 |-> [Tuesday  |-> ("Break" :> FALSE)]]

SaturdayInstants ==
    << [date |-> 8, hour |-> 9], [date |-> 15, hour |-> 9], [date |-> 15, hour |-> 10] >>

InitSaturday ==
    /\ rooms = SaturdayRooms
    /\ audit = <<>>
    /\ history = <<>>
    /\ waitlist = <<>>
    /\ now = SaturdayInstants[1]
    /\ ticks = 0
    /\ pc = [s \in Users |-> "idle"]
    /\ data = [s \in Users |-> NoData]
    /\ out = NoOut
    /\ left = SaturdayOps
    /\ call = NoCall
    /\ notify = DefaultNotify
    /\ frame = [s \in Users |-> NoFrame]
    /\ index = NoIndex
    /\ page = [s \in Users |-> NoPage]

\* Time passes.
TickSaturday ==
    /\ index_of(SaturdayInstants, now) < Len(SaturdayInstants)
    /\ now' = SaturdayInstants[index_of(SaturdayInstants, now) + 1]
    /\ UNCHANGED <<rooms, audit, history, waitlist, ticks, pc, data, out, left,
                   call, notify, frame, index, page>>

NextSaturday ==
    \/ TickSaturday
    \/ \E s \in Users : Load(s)
    \/ \E s \in Users : AutoExpire(s)
    \/ \E s \in Users, room \in Rooms, k \in PickOffsets, slot \in Slots :
           Book(s, room, now.date + k, slot)
    \/ \E s \in Users, room \in Rooms, k \in PickOffsets, slot \in Slots :
           Cancel(s, room, now.date + k, slot)
    \/ \E s \in Users, room \in Rooms, k \in PickOffsets, slot \in Slots :
           JoinWaitlist(s, room, now.date + k, slot)
    \/ \E s \in Users, i \in DOMAIN waitlist : CancelWaitlist(s, i)
    \/ \E s \in Users : View(s)

SpecSaturday == InitSaturday /\ [][NextSaturday]_vars

(***************************************************************************)
(* The media centre (src/features/media.py).  Every run of its page loads  *)
(* the index (main, line 180) and renders the tabs from that copy; a       *)
(* button pressed is handled by a function that loads the index again,     *)
(* changes it and saves it.  Runs of different sessions interleave between *)
(* the load and the handler.  An entry keeps id, album_id and              *)
(* approval_status; files, tags and metadata are left out.                 *)
(***************************************************************************)
\* The values of uuid.uuid4() for albums and for media, in the order drawn.
AlbumIds == <<"album1", "album2">>

MediaIds == <<"media1", "media2">>

\* The events of the log with the given action and entity type.
logged(action, entity_type) ==
    {i \in 1..Len(audit) :
        audit[i].action = action /\ audit[i].entity_type = entity_type}

\* _add_media_to_index(filename, file_type, album_id, tags, metadata,
\* uploader, approval_status) on the index just loaded.
_add_media_to_index(idx, id, album_id, approval_status) ==
    LET media_entry == [id |-> id, album_id |-> album_id,
                        approval_status |-> approval_status]
    IN  IF approval_status = "pending"
        THEN [idx EXCEPT !.pending_approval = Append(@, media_entry)]
        ELSE [idx EXCEPT !.media = Append(@, media_entry)]

\* _create_album(name, description, creator) on the index just loaded.
_create_album(idx, id) == [idx EXCEPT !.albums = Append(@, id)]

without_id(entries, id) ==
    LET other(m) == m.id # id
    IN  SelectSeq(entries, other)

without_album(entries, album_id) ==
    LET other(m) == m.album_id # album_id
    IN  SelectSeq(entries, other)

\* _delete_album(album_id, user_email) on the index just loaded: the album
\* and the entries of "media" that refer to it are removed.
_delete_album(idx, album_id) ==
    LET other(a) == a # album_id
    IN  [idx EXCEPT !.albums = SelectSeq(@, other),
                    !.media = without_album(@, album_id)]

\* approve_media(media, approver_email) on the index just loaded; media is
\* the entry of the page's copy.
approve_media(idx, media) ==
    [idx EXCEPT !.pending_approval = without_id(@, media.id),
                !.media = Append(@, [media EXCEPT !.approval_status = "approved"])]

\* reject_media(media, rejector_email) on the index just loaded.
reject_media(idx, media) ==
    [idx EXCEPT !.pending_approval = without_id(@, media.id)]

\* delete_single_media(media, user_email) on the index just loaded.
delete_single_media(idx, media) ==
    [idx EXCEPT !.media = without_id(@, media.id)]

entries_of(seq) == {seq[i] : i \in 1..Len(seq)}

\* The page run ends.
done(s) == page' = [page EXCEPT ![s] = NoPage]

\* What a handler of the media page leaves alone.
rooms_untouched ==
    UNCHANGED <<rooms, history, waitlist, now, ticks, pc, data, out, call, notify, frame>>

\* main(), line 180: a run of the media page starts and loads the index.
LoadIndex(s) ==
    /\ ~page[s].loaded
    /\ page' = [page EXCEPT ![s] = [loaded |-> TRUE, index |-> index]]
    /\ UNCHANGED <<audit, left, index>>
    /\ rooms_untouched

\* show_upload_interface, lines 221-231: the "Create Album" form.
CreateAlbum(s) ==
    /\ page[s].loaded
    /\ left > 0
    /\ Cardinality(logged("CREATE", "ALBUM")) < Len(AlbumIds)
    /\ LET album_id == AlbumIds[Cardinality(logged("CREATE", "ALBUM")) + 1]
       IN  /\ index' = _create_album(index, album_id)
           /\ audit' = log_audit_event(audit, s, "CREATE", "ALBUM", album_id)
    /\ left' = left - 1
    /\ done(s)
    /\ rooms_untouched

\* upload_files_with_metadata, lines 291-392, for one file and an album of
\* _get_albums().
Upload(s, album_id, requires_approval) ==
    /\ page[s].loaded
    /\ left > 0
    /\ album_id \in entries_of(index.albums)
    /\ Cardinality(logged("UPLOAD", "MEDIA")) < Len(MediaIds)
    /\ LET media_id == MediaIds[Cardinality(logged("UPLOAD", "MEDIA")) + 1]
           approval_status == IF requires_approval THEN "pending" ELSE "approved"
       IN  /\ index' = _add_media_to_index(index, media_id, album_id, approval_status)
           /\ audit' = log_audit_event(audit, s, "UPLOAD", "MEDIA", media_id)
    /\ left' = left - 1
    /\ done(s)
    /\ rooms_untouched

\* show_admin_panel_interface, lines 785-788: "Approve" on an entry the
\* page lists as pending.
Approve(s, media) ==
    /\ page[s].loaded
    /\ left > 0
    /\ media \in entries_of(page[s].index.pending_approval)
    /\ index' = approve_media(index, media)
    /\ audit' = log_audit_event(audit, s, "APPROVE", "MEDIA", media.id)
    /\ left' = left - 1
    /\ done(s)
    /\ rooms_untouched

\* show_admin_panel_interface, lines 790-793: "Reject" on an entry the page
\* lists as pending.
Reject(s, media) ==
    /\ page[s].loaded
    /\ left > 0
    /\ media \in entries_of(page[s].index.pending_approval)
    /\ index' = reject_media(index, media)
    /\ audit' = log_audit_event(audit, s, "REJECT", "MEDIA", media.id)
    /\ left' = left - 1
    /\ done(s)
    /\ rooms_untouched

\* display_search_results: "Delete" on an approved entry the page shows.
DeleteMedia(s, media) ==
    /\ page[s].loaded
    /\ left > 0
    /\ media \in entries_of(page[s].index.media)
    /\ index' = delete_single_media(index, media)
    /\ audit' = log_audit_event(audit, s, "DELETE", "MEDIA", media.id)
    /\ left' = left - 1
    /\ done(s)
    /\ rooms_untouched

\* show_albums_interface, lines 479-483: the confirmed "Delete" of an album
\* of _get_albums().
DeleteAlbum(s, album_id) ==
    /\ page[s].loaded
    /\ left > 0
    /\ album_id \in entries_of(index.albums)
    /\ index' = _delete_album(index, album_id)
    /\ audit' = log_audit_event(audit, s, "DELETE", "ALBUM", album_id)
    /\ left' = left - 1
    /\ done(s)
    /\ rooms_untouched

\* The run ends with no button pressed.
ViewMedia(s) ==
    /\ page[s].loaded
    /\ done(s)
    /\ UNCHANGED <<audit, left, index>>
    /\ rooms_untouched

InitMedia ==
    /\ rooms = InitRooms
    /\ audit = <<>>
    /\ history = <<>>
    /\ waitlist = <<>>
    /\ now = ClockInstants[1]
    /\ ticks = 0
    /\ pc = [s \in Users |-> "idle"]
    /\ data = [s \in Users |-> NoData]
    /\ out = NoOut
    /\ left = MediaOps
    /\ call = NoCall
    /\ notify = DefaultNotify
    /\ frame = [s \in Users |-> NoFrame]
    /\ index = NoIndex
    /\ page = [s \in Users |-> NoPage]

\* The entries a page or the index can hold.
MediaEntries ==
    [id : entries_of(MediaIds), album_id : entries_of(AlbumIds),
     approval_status : {"pending", "approved"}]

NextMedia ==
    \/ \E s \in Users : LoadIndex(s)
    \/ \E s \in Users : CreateAlbum(s)
    \/ \E s \in Users, album_id \in entries_of(AlbumIds), requires_approval \in BOOLEAN :
           Upload(s, album_id, requires_approval)
    \/ \E s \in Users, media \in MediaEntries : Approve(s, media)
    \/ \E s \in Users, media \in MediaEntries : Reject(s, media)
    \/ \E s \in Users, media \in MediaEntries : DeleteMedia(s, media)
    \/ \E s \in Users, album_id \in entries_of(AlbumIds) : DeleteAlbum(s, album_id)
    \/ \E s \in Users : ViewMedia(s)

SpecMedia == InitMedia /\ [][NextMedia]_vars

(***************************************************************************)
(* The audit log on its own (src/utils/audit.py, src/utils/io.py).         *)
(* append_json_array reads the whole file, appends to the list in memory   *)
(* and writes the whole file back, without a lock; the sessions are        *)
(* threads of one server process, and another session can run between the  *)
(* read and the write.                                                     *)
(***************************************************************************)
AuditActions == {"BOOK", "CANCEL"}

\* log_audit_event(actor_email, action, "ROOM_BOOKING", entity_id) builds the
\* event and calls append_json_array, which runs up to its read_json
\* (io.py line 28).
ReadLog(s, action) ==
    /\ ~frame[s].busy
    /\ left > 0
    /\ left' = left - 1
    /\ LET entity_id == entity_id_of("Room1", "Monday", "9AM-10AM")
           event == log_audit_event(<<>>, s, action, "ROOM_BOOKING", entity_id)[1]
       IN  frame' = [frame EXCEPT ![s] = [busy |-> TRUE, data |-> audit,
                                          item |-> <<event>>]]
    /\ UNCHANGED <<rooms, audit, history, waitlist, now, ticks, pc, data, out,
                   call, notify, index, page>>

\* append_json_array, lines 32-33: data.append(item); write_json(path, data).
WriteLog(s) ==
    /\ frame[s].busy
    /\ audit' = frame[s].data \o frame[s].item
    /\ frame' = [frame EXCEPT ![s] = NoFrame]
    /\ UNCHANGED <<rooms, history, waitlist, now, ticks, pc, data, out, left,
                   call, notify, index, page>>

InitAudit ==
    /\ rooms = InitRooms
    /\ audit = <<>>
    /\ history = <<>>
    /\ waitlist = <<>>
    /\ now = ClockInstants[1]
    /\ ticks = 0
    /\ pc = [s \in Users |-> "idle"]
    /\ data = [s \in Users |-> NoData]
    /\ out = NoOut
    /\ left = AuditOps
    /\ call = NoCall
    /\ notify = DefaultNotify
    /\ frame = [s \in Users |-> NoFrame]
    /\ index = NoIndex
    /\ page = [s \in Users |-> NoPage]

NextAudit ==
    \/ \E s \in Users, action \in AuditActions : ReadLog(s, action)
    \/ \E s \in Users : WriteLog(s)

SpecAudit == InitAudit /\ [][NextAudit]_vars

(***************************************************************************)
(* Properties.                                                             *)
(***************************************************************************)
\* The (room, day, slot) triples of the timetable.
Triples ==
    UNION {UNION {{<<r, d, t>> : t \in DOMAIN InitRooms[r][d]} :
                  d \in DOMAIN InitRooms[r]} : r \in Rooms}

is_free(d, x) == ~d[x[1]][x[2]][x[3]]

ent(x) == x[1] \o "|" \o x[2] \o "|" \o x[3]

last_event == audit[Len(audit)]

\* C1: after a Book that succeeds, the schedule in rooms.json has the booked
\* slot occupied: is_free read right after the Book is false.
C1_BookOccupies ==
    [][\A s \in Users, room \in Rooms, k \in PickOffsets, slot \in Slots :
          (Book(s, room, now.date + k, slot) /\ out'.res = "booked")
          => ~is_free(rooms', <<room, _get_day_name(now.date + k), slot>>)]_vars

\* A Book has just succeeded and its slot is occupied on disk.
C1_Witness ==
    /\ out.op = "book" /\ out.res = "booked"
    /\ Len(audit) > 0
    /\ last_event.action = "BOOK" /\ last_event.actor = out.user
    /\ \E x \in Triples : ent(x) = last_event.entity_id /\ ~is_free(rooms, x)

\* Another actor's BOOK of x is the last thing recorded for x, and x is
\* occupied on disk.
booked_by_other(s, x) ==
    /\ ~is_free(rooms, x)
    /\ \E i \in 1..Len(audit) :
          /\ audit[i].entity_id = ent(x) /\ audit[i].action = "BOOK"
          /\ audit[i].actor # s
          /\ \A j \in (i + 1)..Len(audit) : audit[j].entity_id # ent(x)

\* C2: a Book of a slot attempted by a second actor after another actor's
\* Book of that slot has been persisted fails with StaleState and writes
\* nothing: schedule, audit log and booking history stay as they were.
C2_SecondBookFails ==
    [][\A s \in Users, room \in Rooms, k \in PickOffsets, slot \in Slots :
          (/\ Book(s, room, now.date + k, slot)
           /\ _check_booking_conflicts(room, _get_day_name(now.date + k), slot, s) = <<>>
           /\ booked_by_other(s, <<room, _get_day_name(now.date + k), slot>>))
          => (out'.res = "stale" /\ UNCHANGED <<rooms, audit, history>>)]_vars

\* Every schedule over the timetable's keys.
Schedules ==
    {[r \in Rooms |-> [d \in DOMAIN InitRooms[r] |->
          [t \in DOMAIN InitRooms[r][d] |-> <<r, d, t>> \in B]]] : B \in SUBSET Triples}

with(d, x, v) == [d EXCEPT ![x[1]][x[2]][x[3]] = v]

\* C3: round trip.  Book of a slot x that is free in the schedule v the
\* Book works on persists v with x occupied, and the Cancel of x from there
\* leads back to v: x is free again and every other slot is as it was in
\* the schedule before the Book.
C3_RoundTrip ==
    [][\A s \in Users, room \in Rooms, k \in PickOffsets, slot \in Slots :
          LET x == <<room, _get_day_name(now.date + k), slot>>
          IN  /\ (Book(s, room, now.date + k, slot) /\ out'.res = "booked")
                 => (is_free(data[s], x) /\ rooms' = with(data[s], x, TRUE))
              /\ (Cancel(s, room, now.date + k, slot) /\ out'.res = "cancelled")
                 => (/\ is_free(rooms', x)
                     /\ \A v \in Schedules :
                           (is_free(v, x) /\ rooms = with(v, x, TRUE)) => rooms' = v)]_vars

\* A Cancel has just undone the Book recorded right before it, while another
\* slot stayed occupied.
C3_Witness ==
    /\ out.op = "cancel" /\ out.res = "cancelled"
    /\ Len(audit) >= 3
    /\ last_event.action = "CANCEL"
    /\ audit[Len(audit) - 1].action = "BOOK"
    /\ audit[Len(audit) - 1].entity_id = last_event.entity_id
    /\ audit[Len(audit) - 1].actor = last_event.actor
    /\ \E x, y \in Triples :
          /\ ent(x) = last_event.entity_id /\ is_free(rooms, x)
          /\ y # x /\ ~is_free(rooms, y)

\* C4: AutoExpire is idempotent.  After a sweep, a second sweep at the same
\* "now" of the schedule the first one produced (which is what the first
\* one saved, if it freed a slot) changes no slot, appends no audit event
\* and promotes nobody.
C4_ExpireIdempotent ==
    [][\A s \in Users :
          AutoExpire(s)
          => LET again == _reset_expired_bookings(data'[s], audit', waitlist', now')
             IN  /\ ~again.updated
                 /\ again.data = data'[s]
                 /\ again.audit = audit'
                 /\ again.waitlist = waitlist'
                 /\ (Len(audit') > Len(audit) => rooms' = data'[s])]_vars

\* A sweep has just freed a slot and promoted one of the two users who
\* waited for it; the other one still waits.
C4_Witness ==
    /\ Len(audit) > 0
    /\ last_event.action = "AUTO_EXPIRE"
    /\ \E s \in Users : pc[s] = "ready" /\ data[s] = rooms
    /\ \E x \in Triples :
          /\ ent(x) = last_event.entity_id /\ is_free(rooms, x)
          /\ \E i, j \in 1..Len(waitlist) :
                /\ waitlist[i].status = "notified" /\ waitlist[j].status = "waiting"
                /\ \A m \in {i, j} : <<waitlist[m].room, waitlist[m].day,
                                       waitlist[m].slot>> = x

\* The entries of the waitlist, by id.
entry_ids(wl) == {wl[i].id : i \in 1..Len(wl)}

entry(wl, id) == wl[CHOOSE i \in 1..Len(wl) : wl[i].id = id]

slot_of(e) == <<e.room, e.day, e.slot>>

\* The ids of the entries waiting for x.
waiting_for(wl, x) ==
    {id \in entry_ids(wl) : slot_of(entry(wl, id)) = x /\ entry(wl, id).status = "waiting"}

\* The ids this step turns from waiting to notified.
promoted(x) ==
    {id \in waiting_for(waitlist, x) :
        id \in entry_ids(waitlist') /\ entry(waitlist', id).status = "notified"}

\* The number of CANCEL and AUTO_EXPIRE events this step appends for x.
releases(x) ==
    Cardinality({n \in (Len(audit) + 1)..Len(audit') :
        /\ audit'[n].entity_id = ent(x)
        /\ audit'[n].action \in {"CANCEL", "AUTO_EXPIRE"}})

released(x) ==
    {n \in 1..Len(audit) : /\ audit[n].entity_id = ent(x)
                           /\ audit[n].action \in {"CANCEL", "AUTO_EXPIRE"}}

C6_OnePromotionPerRelease ==
    [][/\ \A x \in Triples : Cardinality(promoted(x)) <= releases(x)
       /\ \A x \in Triples : releases(x) <= 1
       /\ \A id \in entry_ids(waitlist) :
             entry(waitlist, id).status = "notified"
             => (id \in entry_ids(waitlist')
                 /\ entry(waitlist', id).status = "notified")]_vars

\* Two entries for one slot that has been released twice, the second time
\* by an expiry met with one entry notified and one waiting: both are
\* notified now.
C6_Witness ==
    /\ Len(audit) > 0 /\ last_event.action = "AUTO_EXPIRE"
    /\ \E i, j \in 1..Len(waitlist) :
          /\ i # j
          /\ slot_of(waitlist[i]) = slot_of(waitlist[j])
          /\ ent(slot_of(waitlist[i])) = last_event.entity_id
          /\ Cardinality(released(slot_of(waitlist[i]))) = 2
          /\ waitlist[i].status = "notified" /\ waitlist[j].status = "notified"

\* C7: a Cancel that succeeds promotes, in the same step, the earliest entry
\* waiting for the cancelled slot; when nobody waits for it the waitlist is
\* left as it is.
C7_CancelPromotes ==
    [][\A s \in Users, room \in Rooms, k \in PickOffsets, slot \in Slots :
          (Cancel(s, room, now.date + k, slot) /\ out'.res = "cancelled")
          => LET x == <<room, _get_day_name(now.date + k), slot>>
                 W == {i \in 1..Len(waitlist) :
                          slot_of(waitlist[i]) = x /\ waitlist[i].status = "waiting"}
             IN  IF W = {} THEN waitlist' = waitlist
                 ELSE \E i \in W :
                        /\ \A j \in W : waitlist[i].timestamp <= waitlist[j].timestamp
                        /\ waitlist' = [waitlist EXCEPT ![i].status = "notified"]]_vars

\* A Cancel has just succeeded and the only user waiting for its slot is
\* notified.
C7_Witness ==
    /\ out.op = "cancel" /\ out.res = "cancelled"
    /\ Len(audit) > 0 /\ last_event.action = "CANCEL"
    /\ Len(waitlist) = 1
    /\ waitlist[1].status = "notified"
    /\ ent(slot_of(waitlist[1])) = last_event.entity_id

ArgRooms == Rooms \cup {"Room9"}

ArgDays == {"Monday", "Tuesday", "Sunday"}

ArgSlots == Slots \cup {"5PM-6PM"}

\* C9: Cancel needs an occupied slot.  On a slot that is free, or with a
\* room, day or slot that the timetable does not have, _cancel_booking
\* reports a failure and leaves schedule, audit log, history and waitlist
\* as they are; so does the Cancel step of the page when the slot is free.
C9_CancelNeedsBooking ==
    [][/\ \A room \in ArgRooms, day \in ArgDays, slot \in ArgSlots, u \in Users :
             LET r == _cancel_booking(rooms, audit, history, waitlist, room, day, slot, u)
             IN  (<<room, day, slot>> \notin Triples \/ is_free(rooms, <<room, day, slot>>))
                 => /\ r.res \in {"not_booked", "invalid"}
                    /\ ~r.saved
                    /\ r.audit = audit /\ r.history = history /\ r.waitlist = waitlist
       /\ \A s \in Users, room \in Rooms, k \in PickOffsets, slot \in Slots :
             (/\ Cancel(s, room, now.date + k, slot)
              /\ is_free(rooms, <<room, _get_day_name(now.date + k), slot>>))
             => /\ out'.res = "not_booked"
                /\ UNCHANGED <<rooms, audit, history, waitlist>>]_vars

\* A Cancel of a slot that had meanwhile been freed has just failed, with an
\* entry in the waitlist.
C9_Witness ==
    /\ out.op = "cancel" /\ out.res = "not_booked"
    /\ Len(waitlist) > 0
    /\ Len(audit) > 0 /\ last_event.action = "AUTO_EXPIRE"

\* The end hours that the slot labels name; "Break" names none.
end_hour_of == [slot \in {"9AM-10AM"} |-> 10]

\* C10: AutoExpire frees, in the loaded schedule, exactly the slots of
\* today's weekday that are occupied and whose end time is <= now; slots of
\* other days, slots that end later, unparsable and free slots keep their
\* value.  The swept schedule is saved when a slot was freed.
C10_ExpireFrame ==
    [][\A s \in Users :
          AutoExpire(s)
          => LET due(x) == /\ x[2] = strftime_A(now.date)
                           /\ ~is_free(data[s], x)
                           /\ x[3] \in DOMAIN end_hour_of
                           /\ end_hour_of[x[3]] <= now.hour
             IN  /\ \A x \in Triples :
                       is_free(data'[s], x) = (due(x) \/ is_free(data[s], x))
                 /\ rooms' = IF \E x \in Triples : due(x) THEN data'[s] ELSE rooms]_vars

\* A sweep has just freed Monday's expired slot and kept Tuesday's booking.
C10_Witness ==
    /\ Len(audit) > 0 /\ last_event.action = "AUTO_EXPIRE"
    /\ \E s \in Users : pc[s] = "ready" /\ data[s] = rooms
    /\ is_free(rooms, <<"Room1", "Monday", "9AM-10AM">>)
    /\ ~is_free(rooms, <<"Room2", "Tuesday", "Break">>)

\* The hour of the day that hour h with meridiem m ("A" or "P") names.
hour24(h, m) ==
    IF m = "A" THEN (IF h = 12 THEN 0 ELSE h) ELSE (IF h = 12 THEN 12 ELSE h + 12)

\* C11: for every label <start><AM|PM>-<end><AM|PM> with hours 1..12,
\* _slot_to_time_range returns the start and the end hour that the 12-hour
\* clock gives: 12AM is 0, 12PM is 12, another PM hour is hour + 12, another
\* AM hour is unchanged.
C11_TwelveHourClock ==
    \A h1 \in Hours, m1 \in Meridiems, h2 \in Hours, m2 \in Meridiems :
        (/\ call.fn = "_slot_to_time_range" /\ call.done
         /\ call.args = label_chars(h1, m1, h2, m2))
        => /\ call.res.ok
           /\ call.res.start_hour = hour24(h1, m1)
           /\ call.res.end_hour = hour24(h2, m2)

\* The Saturdays of the month that come before the given day.
saturdays_before(first_day_weekday, day) ==
    {e \in DaysOfMonth : e < day /\ (first_day_weekday + e - 1) % 7 = 5}

\* C12: is_working_saturday returns false iff the date is a Saturday and the
\* 3rd Saturday of its month (two Saturdays of the month come before it);
\* every other date is working.  When the 1st is a Saturday, day 15 is a
\* holiday and days 8 and 22 are working.
C12_ThirdSaturday ==
    (call.fn = "is_working_saturday" /\ call.done)
    => LET w == call.args.first_day_weekday
           d == call.args.day
       IN  /\ call.res = ~(/\ (w + d - 1) % 7 = 5
                           /\ Cardinality(saturdays_before(w, d)) = 2)
           /\ (w = 5 /\ d = 15) => ~call.res
           /\ (w = 5 /\ d \in {8, 22}) => call.res

\* The 15th of a month whose 1st is a Saturday has been found a holiday.
C12_Witness ==
    /\ call.fn = "is_working_saturday" /\ call.done
    /\ call.args = [first_day_weekday |-> 5, day |-> 15]
    /\ call.res = FALSE

\* The requested slots of a finished search, and those of them that the
\* room has free on the day searched.
requested == {call.args.selected_slots[i] : i \in 1..Len(call.args.selected_slots)}

searched_day == strftime_A(call.args.search_date)

has_day(room) == searched_day \in DOMAIN rooms[room]

free_requested(room) ==
    {t \in requested : /\ t \in DOMAIN rooms[room][searched_day]
                       /\ ~rooms[room][searched_day][t]}

listed(report) == {report[i].room : i \in 1..Len(report)}

\* C13: FindFree includes a room iff the room has a schedule for the day and
\* every requested slot exists in it and is free; a room with a requested
\* slot missing or occupied is not included.  An included room is listed
\* once, with the requested slots.
C13_FindFree ==
    (call.fn = "finder.main" /\ call.done)
    => LET free_rooms == call.res.free_rooms
       IN  /\ \A room \in DOMAIN rooms :
                 room \in listed(free_rooms)
                 <=> (has_day(room) /\ free_requested(room) = requested)
           /\ \A i, j \in 1..Len(free_rooms) :
                 /\ free_rooms[i].room = free_rooms[j].room => i = j
                 /\ free_rooms[i].available_slots = call.args.selected_slots

\* A search for two slots found room A; room B, free at only one of the two,
\* is not in the result.
C13_Witness ==
    /\ call.fn = "finder.main" /\ call.done
    /\ Len(call.args.selected_slots) = 2
    /\ listed(call.res.free_rooms) = {"A"}
    /\ has_day("B") /\ Cardinality(free_requested("B")) = 1

\* C14: when no room has all requested slots free, the partial-match report
\* lists exactly the rooms with at least one but not all requested slots
\* free, each once and with exactly its free requested slots.  With A free
\* only at 9AM-10AM and B free only at 10AM-11AM, a search for both slots
\* finds no room and reports A and B with one slot each.
C14_PartialReport ==
    (call.fn = "finder.main" /\ call.done /\ call.res.free_rooms = <<>>)
    => LET partial_rooms == call.res.partial_rooms
       IN  /\ call.res.partial_shown
           /\ \A room \in DOMAIN rooms :
                 room \in listed(partial_rooms)
                 <=> (/\ has_day(room)
                      /\ free_requested(room) # {}
                      /\ free_requested(room) # requested)
           /\ \A i, j \in 1..Len(partial_rooms) :
                 /\ partial_rooms[i].room = partial_rooms[j].room => i = j
                 /\ {partial_rooms[i].available[n] :
                        n \in 1..Len(partial_rooms[i].available)}
                    = free_requested(partial_rooms[i].room)
                 /\ Len(partial_rooms[i].available)
                    = Cardinality(free_requested(partial_rooms[i].room))

\* The search of the example: no room found, A reported with 9AM-10AM and B
\* with 10AM-11AM.
C14_Witness ==
    /\ call.fn = "finder.main" /\ call.done
    /\ call.args.selected_slots = <<"9AM-10AM", "10AM-11AM">>
    /\ rooms["A"] = ("Monday" :> ("9AM-10AM" :> FALSE @@ "10AM-11AM" :> TRUE))
    /\ rooms["B"] = ("Monday" :> ("9AM-10AM" :> TRUE @@ "10AM-11AM" :> FALSE))
    /\ call.res.free_rooms = <<>>
    /\ call.res.partial_rooms
       = << [room |-> "A", available |-> <<"9AM-10AM">>],
            [room |-> "B", available |-> <<"10AM-11AM">>] >>

\* C15: the conflict check is advisory.  A Book submitted for a free slot
\* for which the check returns warnings is still carried out: it reports
\* success and the slot is occupied afterwards.
C15_ConflictAdvisory ==
    [][\A s \in Users, room \in Rooms, k \in PickOffsets, slot \in Slots :
          LET day_name == _get_day_name(now.date + k)
          IN  (/\ Book(s, room, now.date + k, slot)
               /\ _check_booking_conflicts(room, day_name, slot, s) # <<>>)
              => (/\ out'.res = "booked"
                  /\ ~is_free(rooms', <<room, day_name, slot>>))]_vars

\* C16: the result and the effects of a booking operation do not depend on
\* the notification.  Whatever the settings file and the mail server are,
\* a Book of a slot that is free in the copy of its page run reports the
\* booking, and a Cancel of a slot that is booked in the file reports the
\* cancellation and frees the slot, appends the CANCEL event, writes the
\* history record and promotes the earliest waiting user.
C16_NotifyIndependent ==
    [][\A s \in Users, room \in Rooms, k \in PickOffsets, slot \in Slots :
          LET x == <<room, _get_day_name(now.date + k), slot>>
              p == _process_waitlist(waitlist, x[1], x[2], x[3])
          IN  /\ (Book(s, room, now.date + k, slot)
                     /\ _check_booking_conflicts(x[1], x[2], x[3], s) = <<>>)
                  => /\ out'.res = "booked"
                     /\ rooms' = with(data[s], x, TRUE)
                     /\ Len(audit') = Len(audit) + 1
                     /\ Len(history') = Len(history) + 1
              /\ (Cancel(s, room, now.date + k, slot) /\ ~is_free(rooms, x))
                  => /\ out'.res = "cancelled"
                     /\ rooms' = with(rooms, x, FALSE)
                     /\ Len(audit') = Len(audit) + 1
                     /\ Len(history') = Len(history) + 1
                     /\ waitlist' = p.waitlist]_vars

RECURSIVE is_subsequence(_, _)
is_subsequence(a, b) ==
    IF a = <<>> THEN TRUE
    ELSE IF b = <<>> THEN FALSE
    ELSE IF Head(a) = Head(b) THEN is_subsequence(Tail(a), Tail(b))
    ELSE is_subsequence(a, Tail(b))

\* C17: the audit log is append-only.  In every step of every interleaving
\* of the sessions' log_audit_event calls, the log does not get shorter and
\* the events it held are all still in it, unchanged and in the same order.
C17_AppendOnly ==
    [][Len(audit') >= Len(audit) /\ is_subsequence(audit, audit')]_vars

\* C18: Book checks the slot again just before it writes.  When the copy a
\* page run loaded shows the slot free and the file shows it booked (another
\* session's booking was saved in between), the Book of that run reports
\* "booked by someone else" and leaves the file as it is.
C18_RecheckBeforeWrite ==
    [][\A s \in Users, room \in Rooms, k \in PickOffsets, slot \in Slots :
          LET x == <<room, _get_day_name(now.date + k), slot>>
          IN  (/\ Book(s, room, now.date + k, slot)
               /\ _check_booking_conflicts(x[1], x[2], x[3], s) = <<>>
               /\ is_free(data[s], x)
               /\ ~is_free(rooms, x))
              => (out'.res = "stale" /\ rooms' = rooms)]_vars

\* C19: a lost update happens.  When a session books a slot that another
\* session booked after this session loaded the file (the file shows the
\* slot taken by the other user, with nothing logged for the slot since),
\* the Book passes its check and reports success, a second BOOK event for
\* the slot follows the first with no release between them, and the file
\* becomes this session's copy with the slot set: the last writer wins.
C19_LostUpdate ==
    [][\A s \in Users, room \in Rooms, k \in PickOffsets, slot \in Slots :
          LET x == <<room, _get_day_name(now.date + k), slot>>
          IN  (/\ Book(s, room, now.date + k, slot)
               /\ _check_booking_conflicts(x[1], x[2], x[3], s) = <<>>
               /\ booked_by_other(s, x))
              => /\ out'.res = "booked"
                 /\ audit' = Append(audit, [actor |-> s, action |-> "BOOK",
                                            entity_type |-> "ROOM_BOOKING",
                                            entity_id |-> ent(x)])
                 /\ rooms' = with(data[s], x, TRUE)]_vars

\* Both users have booked the same slot: the last two events of the log are
\* BOOK events for one slot by different users, and the second Book has
\* just reported success.
C19_Witness ==
    /\ Len(audit) >= 2
    /\ out.op = "book" /\ out.res = "booked"
    /\ LET first == audit[Len(audit) - 1]
           second == audit[Len(audit)]
       IN  /\ first.action = "BOOK" /\ second.action = "BOOK"
           /\ first.entity_id = second.entity_id
           /\ first.actor # second.actor
           /\ second.actor = out.user
           /\ \E x \in Triples : ent(x) = second.entity_id /\ ~is_free(rooms, x)

\* The date is the 3rd Saturday of the month.
holiday_saturday(d) == strftime_A(d) = "Saturday" /\ ~is_working_saturday(d)

\* C20: on a holiday Saturday the engine looks up no day schedule for that
\* date.  No booking, cancellation or waitlist form is handled for a selected
\* date that is a holiday Saturday, and a sweep run on a holiday Saturday
\* leaves every room's "Saturday" schedule, in the file and in the copy of
\* the page run, as it is.
C20_HolidaySaturday ==
    [][/\ \A s \in Users, room \in Rooms, k \in PickOffsets, slot \in Slots :
             holiday_saturday(now.date + k)
             => /\ ~Book(s, room, now.date + k, slot)
                /\ ~Cancel(s, room, now.date + k, slot)
                /\ ~JoinWaitlist(s, room, now.date + k, slot)
       /\ \A s \in Users :
             (AutoExpire(s) /\ holiday_saturday(now.date))
             => \A room \in DOMAIN rooms :
                   "Saturday" \in DOMAIN rooms[room]
                   => /\ rooms'[room]["Saturday"] = rooms[room]["Saturday"]
                      /\ data'[s][room]["Saturday"] = data[s][room]["Saturday"]]_vars

\* The label is not a time range: _slot_to_time_range returns (None, None).
unparsable(slot) == ~_slot_to_time_range(Chars(slot)).ok

\* Every hour of Monday 3 and Tuesday 4 November.
AnyInstants == {[date |-> d, hour |-> h] : d \in {3, 4}, h \in 0..23}

\* C21: a slot whose label is not a time range is never freed by the sweep
\* and is booked and cancelled like any other slot.  A sweep, at any hour,
\* leaves such a slot as it is in the schedule it sweeps and logs no
\* AUTO_EXPIRE event for it; a Book of it that meets no conflict reports the
\* booking and occupies it; a Cancel of it while it is booked reports the
\* cancellation and frees it.
C21_UnparsableSlot ==
    [][\A x \in {y \in Triples : unparsable(y[3])} :
          /\ \A s \in Users :
                AutoExpire(s)
                => /\ is_free(data'[s], x) = is_free(data[s], x)
                   /\ \A i \in (Len(audit) + 1)..Len(audit') :
                         audit'[i].entity_id # ent(x)
                   /\ \A t \in AnyInstants :
                         LET r == _reset_expired_bookings(data[s], audit, waitlist, t)
                         IN  is_free(r.data, x) = is_free(data[s], x)
          /\ \A s \in Users, k \in PickOffsets :
                /\ (/\ Book(s, x[1], now.date + k, x[3])
                     /\ _get_day_name(now.date + k) = x[2]
                     /\ _check_booking_conflicts(x[1], x[2], x[3], s) = <<>>)
                    => (out'.res = "booked" /\ ~is_free(rooms', x))
                /\ (/\ Cancel(s, x[1], now.date + k, x[3])
                     /\ _get_day_name(now.date + k) = x[2]
                     /\ ~is_free(rooms, x))
                    => (out'.res = "cancelled" /\ is_free(rooms', x))]_vars

\* It is Tuesday, the slot "Break" of Room2 is booked, and a page run has
\* just swept its copy, in which the slot is still booked.
C21_Witness ==
    /\ strftime_A(now.date) = "Tuesday"
    /\ ~is_free(rooms, <<"Room2", "Tuesday", "Break">>)
    /\ \E s \in Users :
          /\ pc[s] = "ready"
          /\ ~is_free(data[s], <<"Room2", "Tuesday", "Break">>)

\* C22: no slot changes its occupancy in the file without its audit event.
\* In every step of every interleaving, a slot that becomes occupied has a
\* BOOK event with its entity_id appended in that step, and a slot that
\* becomes free has a CANCEL or AUTO_EXPIRE event with its entity_id
\* appended in that step.
C22_ChangeHasEvent ==
    [][\A x \in Triples :
          is_free(rooms', x) # is_free(rooms, x)
          => \E i \in (Len(audit) + 1)..Len(audit') :
                /\ audit'[i].entity_id = ent(x)
                /\ audit'[i].action \in (IF is_free(rooms, x)
                                          THEN {"BOOK"}
                                          ELSE {"CANCEL", "AUTO_EXPIRE"})]_vars

\* The BOOK and CANCEL events of a log, in order, each as the history record
\* that goes with it.
booking_events(log) ==
    LET is_booking(e) == e.action \in {"BOOK", "CANCEL"}
        picked == SelectSeq(log, is_booking)
    IN  [i \in 1..Len(picked) |->
            [user_email |-> picked[i].actor,
             entity_id |-> picked[i].entity_id,
             action |-> IF picked[i].action = "BOOK" THEN "BOOKED" ELSE "CANCELLED"]]

\* The records of the booking history, in order, with room, day and slot
\* joined as in an entity_id.
history_records(hist) ==
    [i \in 1..Len(hist) |->
        [user_email |-> hist[i].user_email,
         entity_id |-> entity_id_of(hist[i].room, hist[i].day, hist[i].slot),
         action |-> hist[i].action]]

\* C23: the booking history goes with the audit log.  After any sequence of
\* operations the history holds one BOOKED record for each BOOK event and one
\* CANCELLED record for each CANCEL event, of the same user, room, day and
\* slot and in the same order, and no other record.
C23_HistoryWithAudit == history_records(history) = booking_events(audit)

\* A booking was cancelled and another one has expired: the log holds BOOK,
\* CANCEL and AUTO_EXPIRE events and the history a CANCELLED record.
C23_Witness ==
    /\ \E i \in 1..Len(history) : history[i].action = "CANCELLED"
    /\ \E i \in 1..Len(audit) : audit[i].action = "AUTO_EXPIRE"

\* The last event logged for the slot is a BOOK by this user.
holds(s, x) ==
    \E i \in 1..Len(audit) :
        /\ audit[i].entity_id = ent(x) /\ audit[i].action = "BOOK"
        /\ audit[i].actor = s
        /\ \A j \in (i + 1)..Len(audit) : audit[j].entity_id # ent(x)

\* C24: a user cancels only a booking they hold.  Every Cancel that succeeds
\* is made by the user whose Book was the last thing that happened to the
\* slot: not by a user whose own booking of it was cancelled or expired
\* before another user booked it.
C24_CancelOwnBooking ==
    [][\A s \in Users, room \in Rooms, k \in PickOffsets, slot \in Slots :
          (Cancel(s, room, now.date + k, slot) /\ out'.res = "cancelled")
          => holds(s, <<room, _get_day_name(now.date + k), slot>>)]_vars

\* The slots whose occupancy in the file differs before and after the step.
changed == {y \in Triples : is_free(rooms', y) # is_free(rooms, y)}

\* C25: operations on different slots do not interfere.  In every
\* interleaving a Book or a Cancel changes in the file at most the slot it
\* is made on, and a sweep with its save at most the slots the sweep freed.
C25_NoInterference ==
    [][/\ \A s \in Users, room \in Rooms, k \in PickOffsets, slot \in Slots :
             LET x == <<room, _get_day_name(now.date + k), slot>>
             IN  (Book(s, room, now.date + k, slot) \/ Cancel(s, room, now.date + k, slot))
                 => changed \subseteq {x}
       /\ \A s \in Users :
             AutoExpire(s)
             => changed \subseteq {y \in Triples : ~is_free(data[s], y) /\ is_free(data'[s], y)}]_vars

\* C26: a booking made for a calendar date stays until it is cancelled or
\* its end time on that date has passed.  When every booking is made for
\* the date one week after today, no sweep of that week frees a booked slot,
\* neither in the copy of the page run nor in the file, and none logs an
\* AUTO_EXPIRE event: not the sweep of the page run right after the Book,
\* and not a sweep later on the booking's weekday.
C26_BookedForDate ==
    [][\A s \in Users :
          AutoExpire(s)
          => /\ \A x \in Triples :
                   /\ ~is_free(data[s], x) => ~is_free(data'[s], x)
                   /\ ~is_free(rooms, x) => ~is_free(rooms', x)
             /\ audit' = audit]_vars

\* C27: one expiry, one event.  When the sweep of a page run meets a slot
\* that is already free in the file (another run has expired it), it logs
\* no AUTO_EXPIRE event for the slot and promotes nobody who waits for it;
\* so two concurrent page runs produce one event and at most one promotion
\* for one expired booking.
C27_ExpireOnce ==
    [][\A s \in Users :
          AutoExpire(s)
          => \A x \in {y \in Triples : is_free(rooms, y)} :
                /\ \A i \in (Len(audit) + 1)..Len(audit') :
                      audit'[i].entity_id # ent(x)
                /\ \A i \in 1..Len(waitlist) :
                      slot_of(waitlist[i]) = x => waitlist'[i] = waitlist[i]]_vars

\* C28: review decisions apply to pending entries only.  In every reachable
\* state of the media index each media id occurs at most once in
\* pending_approval and media taken together, and no entry of media has the
\* id of an item that was rejected.
C28_ReviewPendingOnly ==
    LET all == index.pending_approval \o index.media
    IN  /\ \A i, j \in 1..Len(all) : all[i].id = all[j].id => i = j
        /\ \A i \in logged("REJECT", "MEDIA"), k \in 1..Len(index.media) :
              index.media[k].id # audit[i].entity_id

\* C29: albums are referred to only while they exist.  In every reachable
\* state of the media index each entry of media and of pending_approval has
\* the album_id of an album of the index: deleting an album leaves no entry
\* that refers to it, and no approval adds one afterwards.
C29_AlbumIntegrity ==
    \A m \in entries_of(index.media) \cup entries_of(index.pending_approval) :
        m.album_id \in entries_of(index.albums)

\* rooms.main(), lines 362-372, and the slot list below them: the booking
\* page shows the slot of the room as available for the date.
shown_available(room, d, slot) ==
    LET day_name == _get_day_name(d)
    IN  /\ day_name # None
        /\ day_name \in DOMAIN rooms[room]
        /\ slot \in DOMAIN rooms[room][day_name]
        /\ ~rooms[room][day_name][slot]

\* C30: the finder agrees with the booking page on the bookable dates.
\* Every slot of every room that a finished search reports as free is a
\* slot the booking page shows as available for the searched date; so a
\* search for a 3rd-Saturday holiday reports no room.
C30_FinderAgrees ==
    (call.fn = "finder.main" /\ call.done)
    => \A i \in 1..Len(call.res.free_rooms) :
          LET r == call.res.free_rooms[i]
          IN  \A k \in 1..Len(r.available_slots) :
                 shown_available(r.room, call.args.search_date, r.available_slots[k])

====
